---- MODULE Spec2Model ----
\* A model of pkg/ghpr/ghpr.go: construction of a GithubPR, the Create
\* orchestration (Clone, PushCommit, RaisePR, WaitForPR, MergePR,
\* WaitForMergeCommit, deferred Close) and the status-polling goroutine of
\* waitForStatus together with its result channel and deadline timer.
EXTENDS Integers, Sequences, FiniteSets, TLC

VARIABLES
    repoName,   \* the repoName argument of makeGithubPR, a sequence of characters
    fsIsCwd,    \* whether the filesystem handed to makeGithubPR is the host's "." (MakeGithubPR) or an injected one
    ghpr,       \* the GithubPR struct
    makeErr,    \* the error makeGithubPR returned
    tempDir,    \* whether the directory made by util.TempDir exists in the filesystem it was made in
    pc,         \* where the caller of the GithubPR is
    args,       \* the arguments of the running Create call
    trace,      \* the steps the running Create call has started, in order
    results,    \* the errors those steps returned, in order
    retErr,     \* the error the Create call returns
    lastPush,   \* what the last PushCommit call did
    lastMerge,  \* what the last MergePR call did
    remote,     \* the hosting platform: whether a push, a pull request, a merge has succeeded
    pollers,    \* the polling goroutines in the order started, each with its channel c1,
                \* the values it has sent on it and what its last response held
    elapsed,    \* seconds since the latest waitForStatus entered its select
    feed,       \* what the status feed reports from now on (see FeedKinds)
    used        \* for each Create call on the GithubPR, in order, the directory it
                \* has cloned into ("" while it has not)

vars == <<repoName, fsIsCwd, ghpr, makeErr, tempDir, pc, args, trace,
          results, retErr, lastPush, lastMerge, remote, pollers, elapsed, feed,
          used>>

\* ---------------------------------------------------------------- bounds

\* Longest page of statuses a ListStatuses response carries (PerPage is 20 in the source).
MaxPage == 2
\* The deadline of the select, counted in sleeps of the polling loop
\* (60 minutes / 2 seconds = 1800 in the source).
DeadlineSleeps == 2
\* Longest repository name handed to makeGithubPR when names are enumerated.
MaxNameLen == 4
\* Most Create calls made on one GithubPR when the call is repeated.
MaxRuns == 2
\* time.Sleep(time.Second * 2)
SleepSeconds == 2
\* time.After(...), in seconds, scaled to DeadlineSleeps sleeps
Deadline == DeadlineSleeps * SleepSeconds

\* ---------------------------------------------------------------- values

Nil == "nil"
ErrInvalidName == "invalid repository name supplied"
ErrStatusFailed == "target status check is in a failed state, aborting"
ErrTimeout == "timed out waiting for PR to become mergeable"
ErrNotMergeable == "PR is not mergeable"
\* errors of the collaborators, returned unchanged
ErrTempDir == "util.TempDir error"
ErrChroot == "Chroot error"
ErrClone == "git.Clone error"
ErrHead == "Repository.Head error"
ErrSetReference == "Storer.SetReference error"
ErrWorktree == "Repository.Worktree error"
ErrUpdateFunc == "UpdateFunc error"
ErrCommit == "Worktree.Commit error"
ErrPush == "Repository.Push error"
ErrPRCreate == "PullRequests.Create error"
ErrPRGet == "PullRequests.Get error"
ErrMerge == "PullRequests.Merge error"
ErrListStatuses == "Repositories.ListStatuses error"

Contexts == {"ci", "lint"}
States == {"pending", "success", "failure", "error"}
Shas == {"sha1"}
MergeShas == {"sha2"}
PRNumbers == {7}
TempDirName == "repo_1"

SeqsUpTo(S, n) == UNION {[1..k -> S] : k \in 0..n}

RepoStatus == [context : Contexts, state : States]
Pages == SeqsUpTo(RepoStatus, MaxPage)
\* what one ListStatuses call returns: an error, or a page of statuses
Responses == {[err |-> TRUE, page |-> <<>>]} \cup {[err |-> FALSE, page |-> p] : p \in Pages}
NoResponse == [err |-> FALSE, page |-> <<>>]

\* ---------------------------------------------------------------- makeGithubPR

\* the first index >= i of s that holds a slash, or Len(s)+1: what [^/]+ consumes from i
RECURSIVE SkipNonSlash(_, _)
SkipNonSlash(s, i) ==
    IF i > Len(s) \/ s[i] = "/" THEN i ELSE SkipNonSlash(s, i + 1)

\* (mutant) the pattern is not anchored at the end: "^[^/]+/[^/]+"
MatchString_Unanchored(s) ==
    LET j == SkipNonSlash(s, 1)
    IN  /\ j > 1
        /\ j <= Len(s)
        /\ LET k == SkipNonSlash(s, j + 1)
           IN  k > j + 1

\* regexp.MatchString("^[^/]+/[^/]+$", repoName)
MatchString(s) ==
    LET j == SkipNonSlash(s, 1)
    IN  /\ j > 1
        /\ j <= Len(s)
        /\ LET k == SkipNonSlash(s, j + 1)
           IN  k > j + 1 /\ k = Len(s) + 1

\* strings.Split(s, "/"): the pieces between the slashes
RECURSIVE Split(_)
Split(s) ==
    LET j == SkipNonSlash(s, 1)
    IN  IF j > Len(s) THEN <<s>>
        ELSE <<SubSeq(s, 1, j - 1)>> \o Split(SubSeq(s, j + 1, Len(s)))

NoGhpr == [owner |-> <<>>, repo |-> <<>>, path |-> "", pr |-> 0,
           mergeSHA |-> "", gitRepo |-> Nil]

makeGithubPR ==
    /\ pc = "new"
    /\ IF ~MatchString(repoName)
       THEN /\ makeErr' = ErrInvalidName
            /\ pc' = "invalid"
            /\ UNCHANGED <<ghpr, tempDir>>
       ELSE \E out \in {ErrTempDir, ErrChroot, Nil} :
               /\ makeErr' = out
               /\ tempDir' = (out # ErrTempDir)
               /\ IF out = Nil
                  THEN /\ ghpr' = [NoGhpr EXCEPT !.owner = Split(repoName)[1],
                                                 !.repo = Split(repoName)[2],
                                                 !.path = TempDirName]
                       /\ pc' = "ready"
                  ELSE /\ pc' = "invalid"
                       /\ UNCHANGED ghpr
    /\ UNCHANGED <<repoName, fsIsCwd, args, trace, results, retErr,
                   lastPush, lastMerge, remote, pollers, elapsed, feed, used>>

\* ---------------------------------------------------------------- Create

StepOrder == <<"Clone", "PushCommit", "RaisePR", "WaitForPR", "MergePR", "WaitForMergeCommit">>

\* the step Create runs after step number n returned nil
NextStep(n) == IF n < Len(StepOrder) THEN StepOrder[n + 1] ELSE "defer"

\* (mutant) the error of a step is not checked: Create runs on
StepReturns_RunsOn(err) ==
    /\ results' = Append(results, err)
    /\ pc' = NextStep(Len(results) + 1)
    /\ IF err = Nil THEN UNCHANGED retErr ELSE retErr' = err

\* (mutant) the defer is registered after the check of Clone's error
StepReturns_DeferAfterCheck(err) ==
    /\ results' = Append(results, err)
    /\ IF err = Nil
       THEN /\ pc' = NextStep(Len(results) + 1)
            /\ UNCHANGED retErr
       ELSE /\ pc' = IF results = <<>> THEN "returned" ELSE "defer"
            /\ retErr' = err

\* a step of Create returns err: `if err != nil { return err }`, and the final
\* `return ghpr.WaitForMergeCommit(...)`
StepReturns(err) ==
    /\ results' = Append(results, err)
    /\ IF err = Nil
       THEN /\ pc' = NextStep(Len(results) + 1)
            /\ UNCHANGED retErr
       ELSE /\ pc' = "defer"
            /\ retErr' = err

NoPush == [made |-> <<>>, err |-> Nil]
NoMerge == [got |-> "none", mergeCalled |-> FALSE, err |-> Nil]

\* func (ghpr *GithubPR) Create(...): the call, made once on the GithubPR
Create ==
    /\ pc = "ready"
    /\ \E p \in Contexts, m \in Contexts :
          args' = [prStatusContext |-> p, masterStatusContext |-> m]
    /\ pc' = StepOrder[1]
    /\ trace' = <<>>
    /\ results' = <<>>
    /\ retErr' = Nil
    /\ lastPush' = NoPush
    /\ lastMerge' = NoMerge
    /\ used' = Append(used, "")
    /\ UNCHANGED <<repoName, fsIsCwd, ghpr, makeErr, tempDir, remote, pollers,
                   elapsed, feed>>

\* func (ghpr *GithubPR) Create(...), called again on a GithubPR whose Create
\* call has returned without having started a wait: the retry of a failed run
CreateAgain ==
    /\ pc = "returned"
    /\ pollers = <<>>
    /\ Len(used) < MaxRuns
    /\ \E p \in Contexts, m \in Contexts :
          args' = [prStatusContext |-> p, masterStatusContext |-> m]
    /\ pc' = StepOrder[1]
    /\ trace' = <<>>
    /\ results' = <<>>
    /\ retErr' = Nil
    /\ lastPush' = NoPush
    /\ lastMerge' = NoMerge
    /\ used' = Append(used, "")
    /\ UNCHANGED <<repoName, fsIsCwd, ghpr, makeErr, tempDir, remote, pollers,
                   elapsed, feed>>

\* (mutant) the filesystem of the GithubPR was not chrooted: it is the one handed in
Worktree_NotChrooted(g) == "."

\* the root of ghpr.filesystem, which Clone hands to git.Clone as the worktree:
\* the directory made at construction
Worktree(g) == g.path

\* func (ghpr *GithubPR) Clone() error
Clone ==
    /\ pc = "Clone"
    /\ trace' = Append(trace, "Clone")
    /\ \E out \in {ErrChroot, ErrClone, Nil} :
          /\ StepReturns(out)
          /\ IF out = ErrChroot
             THEN UNCHANGED <<ghpr, tempDir, used>>
             ELSE \E r \in (IF out = Nil THEN {"repo"} ELSE {Nil, "repo"}) :
                     /\ ghpr' = [ghpr EXCEPT !.gitRepo = r]
                     \* a repository that was initialised has written under the directory
                     /\ tempDir' = (tempDir \/ r = "repo")
                     /\ used' = [used EXCEPT ![Len(used)] = Worktree(ghpr)]
    /\ UNCHANGED <<repoName, fsIsCwd, makeErr, args, lastPush,
                   lastMerge, remote, pollers, elapsed, feed>>

\* the calls PushCommit makes that can fail, in order
PushCommitCalls == <<"Head", "SetReference", "Worktree", "UpdateFunc", "Commit",
                     "SetReferenceRemote", "Push">>
PushCommitErr(call) ==
    CASE call = "Head" -> ErrHead
      [] call = "SetReference" -> ErrSetReference
      [] call = "Worktree" -> ErrWorktree
      [] call = "UpdateFunc" -> ErrUpdateFunc
      [] call = "Commit" -> ErrCommit
      [] call = "SetReferenceRemote" -> ErrSetReference
      [] call = "Push" -> ErrPush

\* (mutant) the calls after a failed one are made all the same
PushCommitRun_RunsOn(failAt) ==
    [made |-> PushCommitCalls,
     err |-> IF failAt > Len(PushCommitCalls) THEN Nil
             ELSE PushCommitErr(PushCommitCalls[failAt])]

\* what a PushCommit does whose call number failAt fails (none fails when
\* failAt = Len(PushCommitCalls) + 1): every call before failAt was made and
\* succeeded, the call failAt was made and failed, no later call was made
PushCommitRun(failAt) ==
    [made |-> SubSeq(PushCommitCalls, 1,
                     IF failAt > Len(PushCommitCalls) THEN Len(PushCommitCalls) ELSE failAt),
     err |-> IF failAt > Len(PushCommitCalls) THEN Nil
             ELSE PushCommitErr(PushCommitCalls[failAt])]

\* func (ghpr *GithubPR) PushCommit(branchName string, fn UpdateFunc) error
PushCommit ==
    /\ pc = "PushCommit"
    /\ trace' = Append(trace, "PushCommit")
    /\ \E failAt \in 1..(Len(PushCommitCalls) + 1) :
          LET run == PushCommitRun(failAt)
          IN  /\ lastPush' = run
              /\ remote' = IF run.err = Nil
                           THEN [remote EXCEPT !.pushed = TRUE]
                           ELSE remote
              /\ StepReturns(run.err)
    /\ UNCHANGED <<repoName, fsIsCwd, ghpr, makeErr, tempDir, args,
                   lastMerge, pollers, elapsed, feed, used>>

\* func (ghpr *GithubPR) RaisePR(...) error
RaisePR ==
    /\ pc = "RaisePR"
    /\ trace' = Append(trace, "RaisePR")
    /\ \/ /\ StepReturns(ErrPRCreate)
          /\ UNCHANGED <<ghpr, remote>>
       \/ \E n \in PRNumbers :
             /\ ghpr' = [ghpr EXCEPT !.pr = n]
             /\ remote' = [remote EXCEPT !.pr = TRUE]
             /\ StepReturns(Nil)
    /\ UNCHANGED <<repoName, fsIsCwd, makeErr, tempDir, args, lastPush,
                   lastMerge, pollers, elapsed, feed, used>>

\* ---------------------------------------------------------------- the status feed

Min(S) == CHOOSE x \in S : \A y \in S : x <= y

TerminalStates == {"success", "failure", "error"}

\* the entries of a page that carry the context, and those of them in a terminal state
Matching(page, ctx) == {i \in 1..Len(page) : page[i].context = ctx}
MatchingTerminal(page, ctx) == {i \in Matching(page, ctx) : page[i].state \in TerminalStates}

\* What a response holds for a context: whether it is a transport error, the
\* state of the first entry with the context, the state of the first entry with
\* the context in a terminal state ("none" when there is no such entry), and
\* whether some entry has the context and state success.
Facts(resp, ctx) ==
    [err |-> resp.err,
     firstMatch |-> IF Matching(resp.page, ctx) = {} THEN "none"
                    ELSE resp.page[Min(Matching(resp.page, ctx))].state,
     firstTerminal |-> IF MatchingTerminal(resp.page, ctx) = {} THEN "none"
                       ELSE resp.page[Min(MatchingTerminal(resp.page, ctx))].state,
     hasSuccess |-> \E i \in Matching(resp.page, ctx) : resp.page[i].state = "success"]
NoFacts == [err |-> FALSE, firstMatch |-> "none", firstTerminal |-> "none",
            hasSuccess |-> FALSE]

\* The regimes of the status feed. "any" answers a request with any response.
\* The others keep to the responses a claim speaks of, for a request about ctx:
\*   "reportsSuccess"  pages holding an entry with ctx and state success
\*   "resolvesSuccess" pages whose first entry with ctx in a terminal state is a success
\*   "silent"          no page holds an entry with ctx in a terminal state
\*   "silentPages"     as "silent", and no request fails
FeedKinds == {"any", "reportsSuccess", "resolvesSuccess", "silent", "silentPages"}
Allowed(kind, ctx) ==
    {r \in Responses :
        LET f == Facts(r, ctx)
        IN  CASE kind = "any" -> TRUE
              [] kind = "reportsSuccess" -> ~f.err /\ f.hasSuccess
              [] kind = "resolvesSuccess" -> ~f.err /\ f.firstTerminal = "success"
              [] kind = "silent" -> f.firstTerminal = "none"
              [] kind = "silentPages" -> ~f.err /\ f.firstTerminal = "none"}

\* the feed changes its regime
FeedChange ==
    /\ \E k \in FeedKinds \ {feed} : feed' = k
    /\ UNCHANGED <<repoName, fsIsCwd, ghpr, makeErr, tempDir, pc, args,
                   trace, results, retErr, lastPush, lastMerge, remote, pollers,
                   elapsed, used>>

\* ---------------------------------------------------------------- waitForStatus

\* (mutant) the first entry with the context decides alone: one in another
\* state than success, failure or error ends the scan
RECURSIVE ScanFrom_FirstMatchOnly(_, _, _)
ScanFrom_FirstMatchOnly(statuses, i, statusContext) ==
    IF i > Len(statuses) THEN "continue"
    ELSE IF statuses[i].context = statusContext
         THEN IF statuses[i].state = "success" THEN "success"
              ELSE IF statuses[i].state \in {"failure", "error"} THEN "failed"
              ELSE "continue"
    ELSE ScanFrom_FirstMatchOnly(statuses, i + 1, statusContext)

\* (mutant) the context of an entry is not compared with the requested one
RECURSIVE ScanFrom_ContextIgnored(_, _, _)
ScanFrom_ContextIgnored(statuses, i, statusContext) ==
    IF i > Len(statuses) THEN "continue"
    ELSE IF statuses[i].state = "success" THEN "success"
    ELSE IF statuses[i].state \in {"failure", "error"} THEN "failed"
    ELSE ScanFrom_ContextIgnored(statuses, i + 1, statusContext)

\* (mutant) the state error is not taken for a failed check
RECURSIVE ScanFrom_ErrorIgnored(_, _, _)
ScanFrom_ErrorIgnored(statuses, i, statusContext) ==
    IF i > Len(statuses) THEN "continue"
    ELSE IF statuses[i].context = statusContext /\ statuses[i].state = "success"
         THEN "success"
    ELSE IF statuses[i].context = statusContext /\ statuses[i].state = "failure"
         THEN "failed"
    ELSE ScanFrom_ErrorIgnored(statuses, i + 1, statusContext)

\* the scan of one page, from entry i on (the for loop of the polling goroutine):
\* "success" and "failed" end the goroutine, "continue" sends it back to sleep
RECURSIVE ScanFrom(_, _, _)
ScanFrom(statuses, i, statusContext) ==
    IF i > Len(statuses) THEN "continue"
    ELSE IF statuses[i].context = statusContext /\ statuses[i].state = "success"
         THEN "success"
    ELSE IF statuses[i].context = statusContext
            /\ statuses[i].state \in {"failure", "error"}
         THEN "failed"
    ELSE ScanFrom(statuses, i + 1, statusContext)

\* (mutant) a failed request is tried again after the next sleep
PollResult_Retries(resp, statusContext) ==
    IF resp.err THEN "continue"
    ELSE LET v == ScanFrom(resp.page, 1, statusContext)
         IN  IF v = "success" THEN Nil
             ELSE IF v = "failed" THEN ErrStatusFailed
             ELSE "continue"

\* what one iteration of the polling loop does with the response it got: the
\* value it sends on c1, or "continue"
PollResult(resp, statusContext) ==
    IF resp.err THEN ErrListStatuses
    ELSE LET v == ScanFrom(resp.page, 1, statusContext)
         IN  IF v = "success" THEN Nil
             ELSE IF v = "failed" THEN ErrStatusFailed
             ELSE "continue"

\* the poller the latest waitForStatus selects on
Cur == Len(pollers)
Selecting == pc = "select"

\* waitForStatus up to its select: make the channel, start the goroutine
StartWait(shaRef, statusContext) ==
    /\ pollers' = Append(pollers,
                         [shaRef |-> shaRef, statusContext |-> statusContext,
                          pc |-> "sleep", c1 |-> <<>>, sent |-> <<>>,
                          last |-> NoFacts])
    /\ elapsed' = 0
    /\ pc' = "select"

\* time.Sleep(time.Second * 2) of poller i returns. Time passes for the select
\* that waits on this poller; its timer fires before time passes the deadline.
Sleep(i) ==
    /\ pollers[i].pc = "sleep"
    /\ pollers' = [pollers EXCEPT ![i].pc = "request"]
    /\ IF Selecting /\ i = Cur
       THEN /\ elapsed + SleepSeconds <= Deadline
            /\ elapsed' = elapsed + SleepSeconds
       ELSE UNCHANGED elapsed
    /\ UNCHANGED <<repoName, fsIsCwd, ghpr, makeErr, tempDir, pc, args,
                   trace, results, retErr, lastPush, lastMerge, remote, feed,
                   used>>

\* (mutant) the goroutine does not return after its send: it sleeps and polls on
AfterPoll_PollsOn(p, resp) ==
    LET v == PollResult(resp, p.statusContext)
        q == [p EXCEPT !.last = Facts(resp, p.statusContext)]
    IN  IF v = "continue"
        THEN [q EXCEPT !.pc = "sleep"]
        ELSE [q EXCEPT !.pc = "sleep", !.c1 = Append(@, v), !.sent = Append(@, v)]

\* poller i after the response resp: it has sent on c1 and returned, or sleeps again
AfterPoll(p, resp) ==
    LET v == PollResult(resp, p.statusContext)
        q == [p EXCEPT !.last = Facts(resp, p.statusContext)]
    IN  IF v = "continue"
        THEN [q EXCEPT !.pc = "sleep"]
        ELSE [q EXCEPT !.pc = "done", !.c1 = Append(@, v), !.sent = Append(@, v)]

\* (mutant) c1 has no buffer: a send completes only into a select that waits on it
Poll_Unbuffered(i) ==
    /\ pollers[i].pc = "request"
    /\ \E resp \in Allowed(feed, pollers[i].statusContext) :
          /\ PollResult(resp, pollers[i].statusContext) # "continue"
                => (Selecting /\ i = Cur /\ Len(pollers[i].c1) < 1)
          /\ pollers' = [pollers EXCEPT ![i] = AfterPoll(@, resp)]
    /\ UNCHANGED <<repoName, fsIsCwd, ghpr, makeErr, tempDir, pc, args,
                   trace, results, retErr, lastPush, lastMerge, remote, elapsed,
                   feed, used>>

\* one iteration of poller i after its sleep: Repositories.ListStatuses
\* returns, the goroutine scans the page. A send on the full c1 would block.
Poll(i) ==
    /\ pollers[i].pc = "request"
    /\ \E resp \in Allowed(feed, pollers[i].statusContext) :
          /\ PollResult(resp, pollers[i].statusContext) # "continue"
                => Len(pollers[i].c1) < 1
          /\ pollers' = [pollers EXCEPT ![i] = AfterPoll(@, resp)]
    /\ UNCHANGED <<repoName, fsIsCwd, ghpr, makeErr, tempDir, pc, args,
                   trace, results, retErr, lastPush, lastMerge, remote, elapsed,
                   feed, used>>

\* case err := <-c1: return err
SelectRecv ==
    /\ Selecting
    /\ pollers[Cur].c1 # <<>>
    /\ pollers' = [pollers EXCEPT ![Cur].c1 = Tail(@)]
    /\ StepReturns(Head(pollers[Cur].c1))
    /\ UNCHANGED <<repoName, fsIsCwd, ghpr, makeErr, tempDir, args,
                   trace, lastPush, lastMerge, remote, elapsed, feed, used>>

\* (mutant) the timer fires at once
SelectTimeout_AtOnce ==
    /\ Selecting
    /\ StepReturns(ErrTimeout)
    /\ UNCHANGED <<repoName, fsIsCwd, ghpr, makeErr, tempDir, args,
                   trace, lastPush, lastMerge, remote, pollers, elapsed, feed,
                   used>>

\* (mutant) the timeout cancels the polling goroutine
SelectTimeout_Cancels ==
    /\ Selecting
    /\ elapsed >= Deadline
    /\ StepReturns(ErrTimeout)
    /\ pollers' = [pollers EXCEPT ![Cur].pc = "done"]
    /\ UNCHANGED <<repoName, fsIsCwd, ghpr, makeErr, tempDir, args,
                   trace, lastPush, lastMerge, remote, elapsed, feed, used>>

\* case <-time.After(60 * time.Minute): return errors.New("timed out ...")
SelectTimeout ==
    /\ Selecting
    /\ elapsed >= Deadline
    /\ StepReturns(ErrTimeout)
    /\ UNCHANGED <<repoName, fsIsCwd, ghpr, makeErr, tempDir, args,
                   trace, lastPush, lastMerge, remote, pollers, elapsed, feed,
                   used>>

\* func (ghpr *GithubPR) WaitForPR(statusContext string) error, up to the select
WaitForPR ==
    /\ pc = "WaitForPR"
    /\ trace' = Append(trace, "WaitForPR")
    /\ \/ /\ StepReturns(ErrPRGet)
          /\ UNCHANGED <<pollers, elapsed>>
       \/ \E sha \in Shas :
             /\ StartWait(sha, args.prStatusContext)
             /\ UNCHANGED <<results, retErr>>
    /\ UNCHANGED <<repoName, fsIsCwd, ghpr, makeErr, tempDir, args,
                   lastPush, lastMerge, remote, feed, used>>

\* (mutant) an unset flag passes
IsMergeable_UnsetPasses(mergeable) == mergeable # "false"

\* pr.Mergeable != nil && *pr.Mergeable, for the flag "nil", "false" or "true"
IsMergeable(mergeable) == mergeable # "nil" /\ mergeable = "true"

\* (mutant) the merge commit is not recorded
RecordMerge_Dropped(g, sha) == g

\* ghpr.mergeSHA = *merge.SHA
RecordMerge(g, sha) == [g EXCEPT !.mergeSHA = sha]

\* func (ghpr *GithubPR) MergePR() error
MergePR ==
    /\ pc = "MergePR"
    /\ trace' = Append(trace, "MergePR")
    /\ \/ /\ lastMerge' = [got |-> "error", mergeCalled |-> FALSE, err |-> ErrPRGet]
          /\ StepReturns(ErrPRGet)
          /\ UNCHANGED <<ghpr, remote>>
       \/ \E mergeable \in {"nil", "false", "true"} :
             IF IsMergeable(mergeable)
             THEN \/ /\ lastMerge' = [got |-> mergeable, mergeCalled |-> TRUE,
                                      err |-> ErrMerge]
                     /\ StepReturns(ErrMerge)
                     /\ UNCHANGED <<ghpr, remote>>
                  \/ \E sha \in MergeShas :
                        /\ lastMerge' = [got |-> mergeable, mergeCalled |-> TRUE,
                                         err |-> Nil]
                        /\ ghpr' = RecordMerge(ghpr, sha)
                        /\ remote' = [remote EXCEPT !.merged = TRUE]
                        /\ StepReturns(Nil)
             ELSE /\ lastMerge' = [got |-> mergeable, mergeCalled |-> FALSE,
                                   err |-> ErrNotMergeable]
                  /\ StepReturns(ErrNotMergeable)
                  /\ UNCHANGED <<ghpr, remote>>
    /\ UNCHANGED <<repoName, fsIsCwd, makeErr, tempDir, args, lastPush,
                   pollers, elapsed, feed, used>>

\* func (ghpr *GithubPR) WaitForMergeCommit(statusContext string) error, up to the select
WaitForMergeCommit ==
    /\ pc = "WaitForMergeCommit"
    /\ trace' = Append(trace, "WaitForMergeCommit")
    /\ StartWait(ghpr.mergeSHA, args.masterStatusContext)
    /\ UNCHANGED <<repoName, fsIsCwd, ghpr, makeErr, tempDir, args,
                   results, retErr, lastPush, lastMerge, remote, feed, used>>

\* func (ghpr *GithubPR) Close() error, run by Create's defer; Create drops
\* what it returns. os.RemoveAll(ghpr.path) acts on the host's working
\* directory, and can fail.
Close ==
    /\ pc = "defer"
    /\ trace' = Append(trace, "Close")
    /\ \E removed \in BOOLEAN :
          tempDir' = IF fsIsCwd /\ removed THEN FALSE ELSE tempDir
    /\ pc' = "returned"
    /\ UNCHANGED <<repoName, fsIsCwd, ghpr, makeErr, args, results,
                   retErr, lastPush, lastMerge, remote, pollers, elapsed, feed,
                   used>>

\* ---------------------------------------------------------------- the system

InitNames == {<<"a", "/", "b">>, <<"a", "b">>}

Init ==
    /\ repoName \in InitNames
    /\ fsIsCwd \in BOOLEAN
    /\ ghpr = NoGhpr
    /\ makeErr = Nil
    /\ tempDir = FALSE
    /\ pc = "new"
    /\ args = [prStatusContext |-> "ci", masterStatusContext |-> "ci"]
    /\ trace = <<>>
    /\ results = <<>>
    /\ retErr = Nil
    /\ lastPush = NoPush
    /\ lastMerge = NoMerge
    /\ remote = [pushed |-> FALSE, pr |-> FALSE, merged |-> FALSE]
    /\ pollers = <<>>
    /\ elapsed = 0
    /\ feed = "any"
    /\ used = <<>>

Poller == \E i \in 1..Len(pollers) : Sleep(i) \/ Poll(i)

Next ==
    \/ makeGithubPR
    \/ Create
    \/ Clone
    \/ PushCommit
    \/ RaisePR
    \/ WaitForPR
    \/ SelectRecv
    \/ SelectTimeout
    \/ MergePR
    \/ WaitForMergeCommit
    \/ Close
    \/ Poller
    \/ FeedChange

Spec == Init /\ [][Next]_vars

\* The Go scheduler runs every goroutine that can run, and a caller inside
\* Create runs on: every step but the calls makeGithubPR and Create, and but
\* the feed's changes, is fair.
Fairness ==
    /\ WF_vars(Clone) /\ WF_vars(PushCommit) /\ WF_vars(RaisePR)
    /\ WF_vars(WaitForPR) /\ WF_vars(MergePR) /\ WF_vars(WaitForMergeCommit)
    /\ WF_vars(SelectRecv) /\ WF_vars(SelectTimeout) /\ WF_vars(Close)
    /\ WF_vars(Poller)

\* Progress is checked for a GithubPR made by MakeGithubPR (the host's
\* filesystem) from a well-formed name: the waits do not depend on either.
FairInit == Init /\ fsIsCwd /\ MatchString(repoName)

FairSpec == FairInit /\ [][Next]_vars /\ Fairness

\* Construction alone, for every repository name over Chars up to MaxNameLen
\* characters: makeGithubPR is called once on each.
Chars == {"a", "b", "/"}
Names == SeqsUpTo(Chars, MaxNameLen)

NameInit ==
    /\ repoName \in Names
    /\ fsIsCwd \in BOOLEAN
    /\ ghpr = NoGhpr
    /\ makeErr = Nil
    /\ tempDir = FALSE
    /\ pc = "new"
    /\ args = [prStatusContext |-> "ci", masterStatusContext |-> "ci"]
    /\ trace = <<>>
    /\ results = <<>>
    /\ retErr = Nil
    /\ lastPush = NoPush
    /\ lastMerge = NoMerge
    /\ remote = [pushed |-> FALSE, pr |-> FALSE, merged |-> FALSE]
    /\ pollers = <<>>
    /\ elapsed = 0
    /\ feed = "any"
    /\ used = <<>>

NameSpec == NameInit /\ [][makeGithubPR]_vars

\* A caller that calls Create again on the same GithubPR after a failed call.
RerunNext == Next \/ CreateAgain
RerunSpec == Init /\ [][RerunNext]_vars

\* ---------------------------------------------------------------- claims

IsStep(name) == name # "Close"
\* the steps the Create call has started
Steps == SelectSeq(trace, IsStep)
Closes == {i \in 1..Len(trace) : trace[i] = "Close"}
CreateReturned == pc = "returned"

\* C1: the steps of a Create call run in the order Clone, PushCommit, RaisePR,
\* WaitForPR, MergePR, WaitForMergeCommit; a step starts only after the one
\* before it returned nil; after the first step that returns an error no step
\* runs, and Create returns that error (nil only after all six steps).
C1_StepsInOrderStopAtFirstError ==
    /\ Len(Steps) <= Len(StepOrder)
    /\ Steps = SubSeq(StepOrder, 1, Len(Steps))
    /\ Len(results) <= Len(Steps)
    /\ Len(Steps) <= Len(results) + 1
    /\ \A i \in 1..(Len(Steps) - 1) : results[i] = Nil
    /\ pc \in {"defer", "returned"} =>
          /\ Len(results) = Len(Steps)
          /\ retErr = results[Len(results)]
          /\ retErr = Nil => Len(Steps) = Len(StepOrder)

\* a Create call that returned the error of its fifth step, MergePR
C1_Witness ==
    /\ CreateReturned
    /\ Len(Steps) = 5
    /\ retErr = ErrNotMergeable

\* C2: a Create call runs Close exactly once, after its last step and before
\* it returns, whichever step failed or none.
C2_CloseOnceOnEveryExit ==
    /\ Cardinality(Closes) <= 1
    /\ CreateReturned <=> Cardinality(Closes) = 1
    /\ CreateReturned => /\ trace[Len(trace)] = "Close"
                         /\ Len(results) = Len(trace) - 1
                         /\ Len(results) >= 1

\* a Create call whose Clone failed has run Close and returned
C2_Witness ==
    /\ CreateReturned
    /\ trace = <<"Clone", "Close">>
    /\ retErr = ErrClone

\* C3: after Create returns, with or without an error, the directory made at
\* construction no longer exists.
C3_TempDirGoneAfterCreate == CreateReturned => ~tempDir

\* the head commit WaitForPR fetched and polled
HeadSHA == pollers[1].shaRef
\* the fields of GithubPR that hold a commit identifier
CommitFields == {"mergeSHA"}
SucceededRun == CreateReturned /\ retErr = Nil

\* C4 as stated: a Create call in which every step succeeds leaves the
\* GithubPR with the head commit identifier and the merge commit identifier set.
C4_HeadAndMergeRecorded ==
    SucceededRun =>
        /\ \E f \in CommitFields : ghpr[f] = HeadSHA
        /\ ghpr.mergeSHA # ""

\* C4 amended: such a call leaves the GithubPR with the pull request number
\* and the merge commit identifier set, to what RaisePR and the merge call got;
\* the head commit identifier was fetched and polled by WaitForPR, and the
\* GithubPR does not hold it.
C4_NumberAndMergeRecorded ==
    SucceededRun =>
        /\ ghpr.pr \in PRNumbers
        /\ ghpr.mergeSHA \in MergeShas
        /\ HeadSHA \in Shas
        /\ pollers[2].shaRef = ghpr.mergeSHA
        /\ \A f \in CommitFields : ghpr[f] # HeadSHA

C4_Witness == SucceededRun /\ ghpr.pr # 0 /\ ghpr.mergeSHA # ""

\* the steps of Create that call waitForStatus, and the step of the i-th poller
WaitSteps == {n \in 1..Len(StepOrder) : StepOrder[n] \in {"WaitForPR", "WaitForMergeCommit"}}
PollerOf(n) == Cardinality({m \in WaitSteps : m <= n})
WaitStepOf(i) == CHOOSE n \in WaitSteps : PollerOf(n) = i
\* the waitForStatus of step n has returned v
ReturnedWith(n, v) == Len(results) >= n /\ results[n] = v
\* the waitForStatus of step n is in its select and its poller has sent nothing
Waiting(n) == Selecting /\ Len(trace) = n /\ pollers[Cur].sent = <<>>
\* the poller of the running waitForStatus polls once more before the deadline
CanPollBeforeDeadline ==
    \/ pollers[Cur].pc = "sleep" /\ elapsed + SleepSeconds < Deadline
    \/ pollers[Cur].pc = "request" /\ elapsed < Deadline

\* Poller i has sent v, once, and returned; its waitForStatus returns v, or the
\* timeout error when the deadline was reached before it received v.
SentAndStopped(i, v) ==
    LET p == pollers[i]
        n == WaitStepOf(i)
    IN  /\ p.pc = "done"
        /\ p.sent = <<v>>
        /\ IF p.c1 = <<>>
           THEN ReturnedWith(n, v)
           ELSE /\ p.c1 = <<v>>
                /\ Len(results) >= n => ReturnedWith(n, ErrTimeout) /\ elapsed >= Deadline

\* a poller that has returned stays as it is, but for the value taken from c1
StoppedPollersStay ==
    \A i \in 1..Len(pollers) :
        pollers[i].pc = "done" =>
            /\ pollers'[i].pc = "done"
            /\ pollers'[i].sent = pollers[i].sent
            /\ pollers'[i].last = pollers[i].last

\* C5 as stated: if from some time before the deadline on every response is a
\* page holding an entry with the requested context and state success,
\* waitForStatus returns nil and its poller stops.
C5_SuccessReportedResolves ==
    \A n \in WaitSteps :
        (Waiting(n) /\ CanPollBeforeDeadline /\ [](feed = "reportsSuccess"))
            ~> (ReturnedWith(n, Nil) /\ pollers[PollerOf(n)].pc = "done")

\* C5 amended: if from some time on, with a poll still to come before the
\* deadline and nothing sent yet, every response is a page whose first entry
\* with the requested context in a terminal state is a success, waitForStatus
\* returns nil and its poller stops.
C5_SuccessFirstResolves ==
    \A n \in WaitSteps :
        (Waiting(n) /\ CanPollBeforeDeadline /\ [](feed = "resolvesSuccess"))
            ~> (ReturnedWith(n, Nil) /\ pollers[PollerOf(n)].pc = "done")

\* WaitForPR returned nil on a page whose first entry with the context was
\* pending and a later one a success
C5_Witness ==
    /\ feed = "resolvesSuccess"
    /\ ReturnedWith(WaitStepOf(1), Nil)
    /\ pollers[1].last.firstMatch = "pending"
    /\ pollers[1].pc = "done"

\* C6: a page whose first entry with the requested context in a terminal state
\* is a failure or an error makes the poller send the status-failed error and
\* return, never to poll again; waitForStatus returns that error, which is not
\* the timeout error.
C6_FailedStateInv ==
    /\ ErrStatusFailed # ErrTimeout
    /\ \A i \in 1..Len(pollers) :
          (~pollers[i].last.err /\ pollers[i].last.firstTerminal \in {"failure", "error"})
              => SentAndStopped(i, ErrStatusFailed)
C6_FailedStateResolves == []C6_FailedStateInv /\ [][StoppedPollersStay]_vars

\* WaitForPR returned the status-failed error on a page with an error entry
C6_Witness ==
    /\ ReturnedWith(WaitStepOf(1), ErrStatusFailed)
    /\ pollers[1].last.firstTerminal = "error"
    /\ retErr = ErrStatusFailed

\* the waits that returned the timeout error did so at the deadline
TimeoutAtDeadline ==
    \A n \in WaitSteps : ReturnedWith(n, ErrTimeout) => elapsed >= Deadline

\* C7 as stated: if no response ever holds an entry with the requested context
\* in a terminal state, waitForStatus keeps polling and returns the timeout
\* error, at the deadline and not before.
C7_SilentFeedTimesOut ==
    /\ []TimeoutAtDeadline
    /\ \A n \in WaitSteps :
          (Waiting(n) /\ [](feed = "silent"))
              ~> (ReturnedWith(n, ErrTimeout) /\ pollers[PollerOf(n)].sent = <<>>)

\* C7 amended: the same, when moreover no status request fails.
C7_SilentPagesTimeOut ==
    /\ []TimeoutAtDeadline
    /\ \A n \in WaitSteps :
          (Waiting(n) /\ [](feed = "silentPages"))
              ~> (ReturnedWith(n, ErrTimeout) /\ pollers[PollerOf(n)].sent = <<>>)

\* WaitForPR timed out at the deadline, its poller having last seen a pending entry
C7_Witness ==
    /\ feed = "silentPages"
    /\ ReturnedWith(WaitStepOf(1), ErrTimeout)
    /\ elapsed = Deadline
    /\ pollers[1].last.firstMatch = "pending"
    /\ pollers[1].sent = <<>>

\* what the poller did after its last response, by the state st of the entry that decides
DecidedBy(p, st) ==
    CASE st = "success" -> p.pc = "done" /\ p.sent = <<Nil>>
      [] st \in {"failure", "error"} -> p.pc = "done" /\ p.sent = <<ErrStatusFailed>>
      [] OTHER -> p.pc # "done" /\ p.sent = <<>>

\* C8 as stated: the first entry of a page with the requested context decides
\* alone: success resolves, failure or error fails, any other state has the
\* poller poll again, whatever later entries with the context say.
C8_FirstMatchDecides ==
    \A i \in 1..Len(pollers) :
        ~pollers[i].last.err => DecidedBy(pollers[i], pollers[i].last.firstMatch)

\* C8 amended: the first entry with the requested context that is in a terminal
\* state decides alone; entries with the context in other states are passed
\* over, and the poller polls again only when the page has no deciding entry.
C8_FirstTerminalDecides ==
    \A i \in 1..Len(pollers) :
        ~pollers[i].last.err => DecidedBy(pollers[i], pollers[i].last.firstTerminal)

\* a page whose first entry with the context was pending and a later one a
\* success resolved WaitForPR
C8_Witness ==
    /\ ReturnedWith(WaitStepOf(1), Nil)
    /\ pollers[1].last.firstMatch = "pending"
    /\ pollers[1].last.firstTerminal = "success"
    /\ pollers[1].sent = <<Nil>>

\* C9: a status request that fails makes the poller send that error and
\* return, never to request again; waitForStatus returns that error, which is
\* neither the timeout nor the status-failed error.
C9_TransportErrorInv ==
    /\ ErrListStatuses \notin {ErrTimeout, ErrStatusFailed}
    /\ \A i \in 1..Len(pollers) :
          pollers[i].last.err => SentAndStopped(i, ErrListStatuses)
C9_TransportErrorEndsWait == []C9_TransportErrorInv /\ [][StoppedPollersStay]_vars

\* WaitForMergeCommit returned the error of its status request
C9_Witness ==
    /\ Len(pollers) = 2
    /\ pollers[2].last.err
    /\ ReturnedWith(WaitStepOf(2), ErrListStatuses)
    /\ retErr = ErrListStatuses

\* C10: when the fetched mergeable flag is false or unset, MergePR returns the
\* not-mergeable error and makes no merge call; it makes the merge call only
\* when the fetched flag is true.
C10_NoMergeCallUnlessMergeable ==
    /\ lastMerge.got \in {"nil", "false"} =>
          /\ ~lastMerge.mergeCalled
          /\ lastMerge.err = ErrNotMergeable
          /\ ReturnedWith(5, ErrNotMergeable)
          /\ ~remote.merged
          /\ ghpr.mergeSHA = ""
    /\ lastMerge.mergeCalled => lastMerge.got = "true"

\* MergePR fetched an unset flag and Create returned the not-mergeable error
C10_Witness ==
    /\ lastMerge.got = "nil"
    /\ CreateReturned
    /\ retErr = ErrNotMergeable

\* C11: the merge commit identifier of the GithubPR is set exactly when a merge
\* call has succeeded: it is unset after a failed fetch, a not-mergeable
\* result and a failed merge call, and it is the commit the merge call
\* returned after a successful one.
C11_MergeSHASetIffMerged ==
    /\ (ghpr.mergeSHA # "") <=> remote.merged
    /\ remote.merged <=> (lastMerge.mergeCalled /\ lastMerge.err = Nil)
    /\ lastMerge.err \in {ErrPRGet, ErrNotMergeable, ErrMerge} =>
          /\ ghpr.mergeSHA = ""
          /\ ReturnedWith(5, lastMerge.err)
    /\ remote.merged => ghpr.mergeSHA \in MergeShas /\ ReturnedWith(5, Nil)

\* MergePR made the merge call, the call failed, and Create returned its error
C11_Witness ==
    /\ lastMerge.mergeCalled
    /\ lastMerge.err = ErrMerge
    /\ CreateReturned
    /\ ghpr.mergeSHA = ""

\* the calls of the last PushCommit that were made and returned no error
Succeeded ==
    IF lastPush.err = Nil THEN lastPush.made
    ELSE SubSeq(lastPush.made, 1, Len(lastPush.made) - 1)
Made(call) == {i \in 1..Len(lastPush.made) : lastPush.made[i] = call}
Ok(call) == {i \in 1..Len(Succeeded) : Succeeded[i] = call}

\* C12: PushCommit makes the push at most once, and only after the mutation
\* callback and the commit have both succeeded; when the callback fails,
\* PushCommit returns the callback's error, makes neither the commit nor the
\* push, and the remote has received nothing.
C12_PushOnceAfterCommit ==
    /\ Cardinality(Made("Push")) <= 1
    /\ \A i \in Made("Push") :
          /\ \E j \in Ok("UpdateFunc") : j < i
          /\ \E j \in Ok("Commit") : j < i
    /\ remote.pushed => Ok("Push") # {}
    /\ lastPush.err = ErrCommit => Made("Push") = {}
    /\ (Made("UpdateFunc") # {} /\ Ok("UpdateFunc") = {}) <=> lastPush.err = ErrUpdateFunc
    /\ lastPush.err = ErrUpdateFunc =>
          /\ ReturnedWith(2, ErrUpdateFunc)
          /\ Made("Commit") = {}
          /\ Made("Push") = {}
          /\ ~remote.pushed

\* the mutation callback failed and Create returned its error
C12_Witness ==
    /\ lastPush.err = ErrUpdateFunc
    /\ CreateReturned
    /\ retErr = ErrUpdateFunc

\* the places of the slashes in a name
Slashes(s) == {i \in 1..Len(s) : s[i] = "/"}
\* a name with exactly one slash and a non-empty part on either side of it
WellFormed(s) ==
    /\ Cardinality(Slashes(s)) = 1
    /\ \A i \in Slashes(s) : 1 < i /\ i < Len(s)
Constructed == pc # "new"
\* owner and repo are the parts of the name before and after its slash
SplitAtSlash ==
    \A i \in Slashes(repoName) :
        /\ ghpr.owner = SubSeq(repoName, 1, i - 1)
        /\ ghpr.repo = SubSeq(repoName, i + 1, Len(repoName))
\* the directory was not made and nothing was sent to the hosting platform
NothingDone ==
    /\ ~tempDir
    /\ ghpr = NoGhpr
    /\ remote = [pushed |-> FALSE, pr |-> FALSE, merged |-> FALSE]
    /\ pollers = <<>>

\* C13 as stated: makeGithubPR succeeds exactly for the names with one slash
\* and two non-empty parts, with owner the part before the slash and repo the
\* part after; for every other name it fails before making the directory and
\* before any network access.
C13_SucceedsExactlyForWellFormed ==
    Constructed =>
        /\ makeErr = Nil <=> WellFormed(repoName)
        /\ makeErr = Nil => SplitAtSlash
        /\ ~WellFormed(repoName) => NothingDone

\* C13 amended: makeGithubPR fails with the invalid-name error exactly for the
\* names that do not have one slash and two non-empty parts, before making the
\* directory and before any network access; for a name that has, it succeeds
\* with owner and repo the two parts unless util.TempDir or Chroot fails, and
\* then it returns that error.
C13_RejectsExactlyIllFormed ==
    Constructed =>
        /\ makeErr = ErrInvalidName <=> ~WellFormed(repoName)
        /\ ~WellFormed(repoName) => NothingDone
        /\ WellFormed(repoName) => makeErr \in {Nil, ErrTempDir, ErrChroot}
        /\ makeErr = Nil => /\ pc = "ready"
                            /\ SplitAtSlash
                            /\ ghpr.path = TempDirName
                            /\ tempDir
        /\ makeErr # Nil => pc = "invalid" /\ ghpr = NoGhpr
        /\ makeErr = ErrTempDir => ~tempDir

\* a name with a two-letter owner was accepted and split at its slash
C13_Witness ==
    /\ Constructed
    /\ makeErr = Nil
    /\ ghpr.owner = <<"a", "b">>
    /\ ghpr.repo = <<"a">>

\* step n of Create has called waitForStatus (WaitForPR does after its fetch succeeded)
Invoked(n) == Len(Steps) >= n /\ ~ReturnedWith(n, ErrPRGet)
PollerValues == {Nil, ErrStatusFailed, ErrListStatuses}

C14_Inv ==
    /\ Len(pollers) = Cardinality({n \in WaitSteps : Invoked(n)})
    /\ \A i \in 1..Len(pollers) :
          LET p == pollers[i]
          IN  /\ p.pc \in {"sleep", "request", "done"}
              /\ Len(p.sent) <= 1
              /\ Len(p.c1) <= 1
              /\ \A k \in 1..Len(p.sent) : p.sent[k] \in PollerValues
              /\ \A k \in 1..Len(p.c1) : p.c1[k] = p.sent[k]
              /\ p.pc = "done" <=> p.sent # <<>>
\* a step starts a poller only by starting a wait, and one poller then
OnePollerPerWait ==
    /\ Len(pollers') \in {Len(pollers), Len(pollers) + 1}
    /\ Len(pollers') = Len(pollers) + 1 <=> (~Selecting /\ Selecting')

\* C14: each call of waitForStatus starts exactly one polling goroutine; the
\* goroutine sends at most one value on c1 (nil, the status-failed error or
\* the error of its request), which c1 holds without a receiver, and having
\* sent it returns and polls no more.
C14_OnePollerOneSend ==
    /\ []C14_Inv
    /\ [][OnePollerPerWait /\ StoppedPollersStay]_vars

\* both waits of a Create call ran; each started one poller, which sent once
C14_Witness ==
    /\ CreateReturned
    /\ Len(pollers) = 2
    /\ pollers[1].sent = <<Nil>>
    /\ pollers[2].sent = <<ErrStatusFailed>>
    /\ pollers[2].pc = "done"

StepNo(name) == CHOOSE n \in 1..Len(StepOrder) : StepOrder[n] = name

\* C15: the two waits of a Create call do not overlap: WaitForMergeCommit
\* starts its wait only after WaitForPR returned nil, its poller having
\* stopped, and MergePR returned nil; after a WaitForPR that timed out, whose
\* poller runs on, no second wait starts.
C15_WaitsNeverOverlap ==
    /\ Len(pollers) <= 2
    /\ Len(Steps) >= StepNo("WaitForMergeCommit") <=> Len(pollers) = 2
    /\ Len(pollers) = 2 =>
          /\ ReturnedWith(StepNo("WaitForPR"), Nil)
          /\ ReturnedWith(StepNo("MergePR"), Nil)
          /\ pollers[1].pc = "done"
          /\ pollers[1].c1 = <<>>
    /\ ReturnedWith(StepNo("WaitForPR"), ErrTimeout) =>
          /\ Len(pollers) = 1
          /\ Len(Steps) = StepNo("WaitForPR")
          /\ pc \in {"defer", "returned"}

\* WaitForPR timed out and Create returned while its poller is about to poll
C15_Witness ==
    /\ CreateReturned
    /\ ReturnedWith(StepNo("WaitForPR"), ErrTimeout)
    /\ Len(pollers) = 1
    /\ pollers[1].pc = "request"

\* While the select waits and c1 holds a value sent before the deadline, the
\* timer does not fire; the select's next return is that value. (The send of
\* the goroutine wakes the select that waits on c1.)
DeliveredValueReturned ==
    (Selecting /\ pollers[Cur].c1 # <<>> /\ elapsed < Deadline) =>
        /\ elapsed' = elapsed
        /\ results' # results => results' = Append(results, Head(pollers[Cur].c1))
\* a wait returns the timeout error only in a step taken at the deadline
TimeoutStepAtDeadline ==
    (Selecting /\ results' = Append(results, ErrTimeout)) => elapsed >= Deadline

\* C16: waitForStatus returns the timeout error only once the deadline has
\* passed without a value sent by its poller before it; a value the poller
\* sent before the deadline is what waitForStatus returns.
C16_TimeoutOnlyWithoutResult ==
    /\ []TimeoutAtDeadline
    /\ [][DeliveredValueReturned /\ TimeoutStepAtDeadline]_vars

\* WaitForPR returned the nil its poller sent after the first sleep
C16_Witness ==
    /\ ReturnedWith(StepNo("WaitForPR"), Nil)
    /\ Len(pollers) = 1
    /\ elapsed = SleepSeconds
    /\ elapsed < Deadline
    /\ pollers[1].sent = <<Nil>>
    /\ pollers[1].c1 = <<>>

\* the waitForStatus that started poller i has returned the timeout error
Abandoned(i) == i <= Len(pollers) /\ ReturnedWith(WaitStepOf(i), ErrTimeout)
\* the last response of the poller held a terminal state of its check
SawTerminal(p) == ~p.last.err /\ p.last.firstTerminal # "none"
\* the last response of the poller held one, or was the error of a failed request
SawTerminalOrError(p) == p.last.err \/ p.last.firstTerminal # "none"
\* the timeout leaves the poller as it is, and an abandoned poller that has
\* not returned goes on through its loop: sleep, request, and sleep or return
NotCancelled ==
    /\ (Selecting /\ results' = Append(results, ErrTimeout)) => pollers' = pollers
    /\ \A i \in 1..Len(pollers) :
          (Abandoned(i) /\ pollers[i].pc # "done") =>
              \/ pollers'[i] = pollers[i]
              \/ pollers[i].pc = "sleep" /\ pollers'[i] = [pollers[i] EXCEPT !.pc = "request"]
              \/ pollers[i].pc = "request" /\ pollers'[i].pc \in {"sleep", "done"}
\* where the poller of step n is in its loop ("none" before it was started)
PcOfPoller(n) == IF PollerOf(n) <= Len(pollers) THEN pollers[PollerOf(n)].pc ELSE "none"
\* the wait of step n timed out and its poller has not returned
RunsAbandoned(n) == ReturnedWith(n, ErrTimeout) /\ PcOfPoller(n) \in {"sleep", "request"}
\* under a feed that never ends the poll, an abandoned poller sleeps and requests for ever
\* (a Create call has at most one abandoned poller: it returns after a timeout)
PollsForEver ==
    ((\E n \in WaitSteps : RunsAbandoned(n)) /\ [](feed = "silentPages"))
        ~> (\E n \in WaitSteps : RunsAbandoned(n) /\ PcOfPoller(n) = "request")

\* C17 as stated: after waitForStatus returned by timeout its poller is not
\* cancelled and keeps polling; it returns only on a response that holds a
\* terminal state (success, failure, error) for the check, and polls for ever
\* otherwise.
C17_AbandonedEndsOnlyOnTerminal ==
    /\ [](\A i \in 1..Len(pollers) :
             (Abandoned(i) /\ pollers[i].pc = "done") => SawTerminal(pollers[i]))
    /\ [][NotCancelled]_vars
    /\ PollsForEver

\* C17 amended: the same, but the poller returns on a response that holds a
\* terminal state for the check or on a status request that fails; it polls
\* for ever when neither happens.
C17_AbandonedEndsOnlyOnSend ==
    /\ [](\A i \in 1..Len(pollers) :
             (Abandoned(i) /\ pollers[i].pc = "done") => SawTerminalOrError(pollers[i]))
    /\ [][NotCancelled]_vars
    /\ PollsForEver

\* the poller of a timed-out WaitForPR returned on a failed request, Create having returned
C17_Witness ==
    /\ CreateReturned
    /\ Abandoned(1)
    /\ pollers[1].pc = "done"
    /\ pollers[1].last.err
    /\ pollers[1].c1 = <<ErrListStatuses>>

\* the GithubPR was made and no Create call on it has run its Close
BeforeTeardown ==
    /\ pc \notin {"new", "invalid"}
    /\ Len(used) <= 1
    /\ ~CreateReturned
\* the Create calls that have cloned
Cloned == {k \in 1..Len(used) : used[k] # ""}

\* C18 as stated: the directory made at construction exists from construction
\* until teardown, and no two Create calls use it: after a Create call has run
\* its Close, no later Create call, on the same GithubPR included, clones into
\* the same directory path.
C18_DirNeverUsedByTwoRuns ==
    /\ BeforeTeardown => tempDir
    /\ \A j \in Cloned, k \in Cloned : j # k => used[j] # used[k]

\* C18 amended: the directory is made once, at construction, and exists from
\* then until the Close of the first Create call; the path is a field of the
\* GithubPR that no call changes, and every Create call on the GithubPR clones
\* into that one path, a call after the teardown included.
C18_EveryRunUsesTheOneDir ==
    /\ BeforeTeardown => tempDir
    /\ pc \notin {"new", "invalid"} => ghpr.path = TempDirName
    /\ Len(used) <= MaxRuns
    /\ \A k \in Cloned : used[k] = ghpr.path

\* a second Create call on the GithubPR has cloned into the directory the
\* first call cloned into and tore down
C18_Witness ==
    /\ Len(used) = 2
    /\ used[1] = TempDirName
    /\ used[2] = TempDirName
    /\ tempDir
    /\ pc = "PushCommit"

\* a poller that is about to request can take its step, and no value waits in
\* c1 that a send of its would find in the way
NeverBlocked ==
    \A i \in 1..Len(pollers) :
        /\ pollers[i].pc # "done" => pollers[i].c1 = <<>>
        /\ pollers[i].pc = "request" => ENABLED Poll(i)
\* an abandoned poller whose request fails or brings a terminal state sends
\* the value into c1 and returns, and the value stays there
AbandonedSendCompletes ==
    \A i \in 1..Len(pollers) :
        (Abandoned(i) /\ pollers[i].pc = "request" /\ pollers'[i].pc # "request"
            /\ SawTerminalOrError(pollers'[i])) =>
                /\ pollers'[i].pc = "done"
                /\ Len(pollers'[i].sent) = 1
                /\ pollers'[i].c1 = pollers'[i].sent
AbandonedValueStays ==
    \A i \in 1..Len(pollers) :
        (Abandoned(i) /\ pollers[i].pc = "done") => pollers'[i] = pollers[i]

\* C19: the poller never blocks on its send: it sends at most once on a
\* channel of capacity one, so the poller of a timed-out waitForStatus that
\* later gets a terminal state or a failed request completes its send and
\* returns, though nobody receives from c1.
C19_AbandonedSendNeverBlocks ==
    /\ []NeverBlocked
    /\ [][AbandonedSendCompletes /\ AbandonedValueStays]_vars
    /\ ((\E n \in WaitSteps : RunsAbandoned(n)) /\ [](feed = "resolvesSuccess"))
          ~> (\E n \in WaitSteps : ReturnedWith(n, ErrTimeout) /\ PcOfPoller(n) = "done")

\* the poller of a timed-out WaitForPR has sent the status-failed error into
\* c1 and returned, Create having returned
C19_Witness ==
    /\ CreateReturned
    /\ Abandoned(1)
    /\ pollers[1].pc = "done"
    /\ pollers[1].c1 = <<ErrStatusFailed>>

\* C20: waitForStatus returns nil only on a response that held an entry with
\* the requested context and state success: never on a failed request, on a
\* page without an entry of the context, on entries of the context in other
\* states only, or on a success of another context.
C20_NilOnlyOnMatchingSuccess ==
    /\ \A i \in 1..Len(pollers) :
          (\E k \in 1..Len(pollers[i].sent) : pollers[i].sent[k] = Nil) =>
              /\ ~pollers[i].last.err
              /\ pollers[i].last.hasSuccess
              /\ pollers[i].last.firstMatch # "none"
              /\ pollers[i].last.firstTerminal = "success"
    /\ \A n \in WaitSteps :
          ReturnedWith(n, Nil) =>
              /\ PollerOf(n) <= Len(pollers)
              /\ pollers[PollerOf(n)].sent = <<Nil>>
              /\ pollers[PollerOf(n)].shaRef \in Shas \cup MergeShas

\* both waits of a Create call returned nil, each on a page with a success of its context
C20_Witness ==
    /\ SucceededRun
    /\ pollers[1].last.hasSuccess
    /\ pollers[2].last.hasSuccess
    /\ pollers[2].last.firstMatch = "success"

====
